---- MODULE Spec2Model ----
(***************************************************************************)
(* SecureEmailOtp (src/src/core/secure-email-otp.ts) over the in-memory    *)
(* store (MemoryDatabaseAdapter) and the in-memory rate limiter            *)
(* (MemoryRateLimiterAdapter).                                             *)
(*                                                                         *)
(* generate() and verify() are async functions: a call runs synchronously  *)
(* up to each `await`, where other calls may run.  Every action below is   *)
(* one such synchronous segment; the adapters' methods contain no await,   *)
(* so each adapter call is atomic and runs when it is called.              *)
(***************************************************************************)
EXTENDS Integers, Sequences, FiniteSets, TLC

(* ------------------------------ bounds -------------------------------- *)

\* the clock runs over 0..MaxTime
MaxTime == 2

\* generate() calls started in one behaviour
MaxGenerates == 3

\* verify() calls started in one behaviour
MaxVerifies == 4

\* generate() calls started in one behaviour that exercises the rate limit
MaxRateGenerates == 4

\* config.expiryMs, in clock ticks
ExpiryMs == 1

\* config.rateLimit.windowMs, in clock ticks
WindowMs == 1

\* config.rateLimit.maxPerWindow (the default)
MaxPerWindow == 3
\* healthCheck() calls explored
MaxHealthChecks == 2

(* ------------------------------ inputs -------------------------------- *)

Procs == {"p1", "p2"}

SeqCaller == "p1"

CallerRank(p) == IF p = "p1" THEN 1 ELSE 2

\* "" is the missing (falsy) parameter
Emails == {"a@x", "b@x"}

Contexts == {"login", "reset"}

Codes == {"111111", "222222"}

\* RequestMeta: ip, userAgent, optional deviceId and platform ("" = absent)
GenMetas ==
  { [ip |-> "ip1", userAgent |-> "ua", deviceId |-> "dev1", platform |-> ""] }

\* what verify() presents: the same metadata, or another origin address
Metas ==
  { [ip |-> "ip1", userAgent |-> "ua", deviceId |-> "dev1", platform |-> ""],
    [ip |-> "ip2", userAgent |-> "ua", deviceId |-> "dev1", platform |-> ""] }

\* config.maxRetries values explored
MaxRetriesChoices == {1, 2}

\* config.rateLimit.maxPerWindow values explored next to the default
SmallPerWindow == {1, 2}

NoId == 0

NoRecord == [id |-> NoId]

(* --------------------------- OtpGenerator ----------------------------- *)

\* bcrypt.hash(otp, 12): one-way, so the model keeps only what compare can tell
hashOtp(otp) == <<"bcrypt", otp>>

verifyOtpHash(otp, hash) == hash = hashOtp(otp)

createHmac(otp, context, sessionId) == <<"hmac-sha256", otp, context, sessionId>>

verifyHmac(otp, context, sessionId, expectedHmac) ==
  createHmac(otp, context, sessionId) = expectedHmac

(* ----------------------- MemoryDatabaseAdapter ------------------------ *)
\* this.otps is a Map: iteration is in insertion order, set() on an existing
\* key keeps its place.  It is modelled as a sequence of records.

Ids(otps) == { otps[i].id : i \in DOMAIN otps }

SelectFirst(otps, Test(_)) ==
  LET hits == { i \in DOMAIN otps : Test(otps[i]) }
  IN  IF hits = {} THEN NoRecord
      ELSE otps[CHOOSE i \in hits : \A j \in hits : i <= j]

createOtp(otps, otp, id, now) ==
  Append(otps, [otp EXCEPT !.id = id, !.createdAt = now])

\* variant: the session id alone selects the record
findOtpBySession(otps, email, context, sessionId, channel) ==
  SelectFirst(otps, LAMBDA o : o.channel = channel /\ o.sessionId = sessionId)

findOtp(otps, email, context, sessionId, channel) ==
  SelectFirst(otps, LAMBDA o : /\ o.channel = channel
                               /\ o.context = context
                               /\ o.sessionId = sessionId
                               /\ o.email = email)

\* throws when the id is not in the map: callers test HasOtp first
HasOtp(otps, id) == id \in Ids(otps)

\* variant: the write of isUsed is lost
updateUsedLost(otps, id) == otps

updateUsed(otps, id) ==
  [i \in DOMAIN otps |->
     IF otps[i].id = id THEN [otps[i] EXCEPT !.isUsed = TRUE] ELSE otps[i]]

updateAttempts(otps, id, attempts, isLocked) ==
  [i \in DOMAIN otps |->
     IF otps[i].id = id
     THEN [otps[i] EXCEPT !.attempts = attempts, !.isLocked = isLocked]
     ELSE otps[i]]

deleteOtp(otps, id) == SelectSeq(otps, LAMBDA o : o.id # id)

\* the test of findActiveOtp, lines 57-64
isActiveFor(o, email, context, channel, now) ==
  /\ o.channel = channel
  /\ o.context = context
  /\ ~o.isUsed
  /\ ~o.isLocked
  /\ o.expiresAt > now
  /\ o.email = email

findActiveOtp(otps, email, context, channel, now) ==
  SelectFirst(otps, LAMBDA o : isActiveFor(o, email, context, channel, now))

\* variant: a used record is kept for ever
cleanupExpiredOtpsUnused(otps, now) ==
  SelectSeq(otps, LAMBDA o : ~(o.expiresAt <= now /\ ~o.isUsed))

cleanupExpiredOtps(otps, now) == SelectSeq(otps, LAMBDA o : ~(o.expiresAt <= now))

\* keeps the first element of the stable sort by createdAt descending: the
\* first-inserted record among those with the greatest createdAt
cleanupConflictingOtps(otps, email, context, channel) ==
  LET conf == { i \in DOMAIN otps : /\ otps[i].email = email
                                    /\ otps[i].context = context
                                    /\ otps[i].channel = channel }
      newest == { i \in conf : \A j \in conf : otps[j].createdAt <= otps[i].createdAt }
      keep == CHOOSE i \in newest : \A j \in newest : i <= j
  IN  IF Cardinality(conf) > 1
      THEN SelectSeq(otps, LAMBDA o : ~(/\ o.email = email
                                         /\ o.context = context
                                         /\ o.channel = channel
                                         /\ o.id # otps[keep].id))
      ELSE otps

(* ---------------------- MemoryRateLimiterAdapter ---------------------- *)
\* this.limits is a Map from key to {count, resetTime}: a function whose
\* domain is the set of keys present.

MapSet(m, k, v) == [x \in DOMAIN m \cup {k} |-> IF x = k THEN v ELSE m[x]]

MapDelete(m, k) == [x \in DOMAIN m \ {k} |-> m[x]]

\* variant: the limit itself is still admitted
checkLimitResultLoose(limits, key, limit, now) ==
  IF key \notin DOMAIN limits THEN TRUE
  ELSE IF now > limits[key].resetTime THEN TRUE
  ELSE limits[key].count <= limit

checkLimitResult(limits, key, limit, now) ==
  IF key \notin DOMAIN limits THEN TRUE
  ELSE IF now > limits[key].resetTime THEN TRUE
  ELSE limits[key].count < limit

\* variant: checkLimit drops the entry it looked at
checkLimitMapDrop(limits, key, now) == MapDelete(limits, key)

\* the map after checkLimit: an entry whose window has expired is deleted
checkLimitMap(limits, key, now) ==
  IF key \in DOMAIN limits /\ now > limits[key].resetTime
  THEN MapDelete(limits, key)
  ELSE limits

\* variant: the count stays at one
incrementStuck(limits, key, windowMs, now) ==
  IF key \in DOMAIN limits /\ ~(now > limits[key].resetTime)
  THEN limits
  ELSE MapSet(limits, key, [count |-> 1, resetTime |-> now + windowMs])

increment(limits, key, windowMs, now) ==
  IF key \notin DOMAIN limits
  THEN MapSet(limits, key, [count |-> 1, resetTime |-> now + windowMs])
  ELSE IF now > limits[key].resetTime
  THEN MapSet(limits, key, [count |-> 1, resetTime |-> now + windowMs])
  ELSE MapSet(limits, key, [count |-> limits[key].count + 1,
                            resetTime |-> limits[key].resetTime])

(* ------------------------------- state -------------------------------- *)

VARIABLES
  mode,      \* "conc": calls interleave at their awaits; "seq": one call at a time
  budget,    \* what one behaviour explores: mixes of calls, clock range, inputs drawn
  gens,      \* generate() calls started
  vers,      \* verify() calls started
  cfg,       \* this.config: maxRetries, strictMode, rateLimit.maxPerWindow
  now,       \* Date.now()
  otps,      \* MemoryDatabaseAdapter.otps
  limits,    \* MemoryRateLimiterAdapter.limits
  nextId,    \* fresh record ids (generateId)
  nextSid,   \* fresh session ids (generateSessionId)
  sent,      \* emails the provider has accepted
  pc,        \* per caller: the await its call is suspended at
  loc,       \* per caller: the locals of its call
  result,    \* what the call that ended in this step returned or threw
  last,      \* history: the call that completed last ("seq" mode)
  issued,    \* history: sessions returned by a successful generate()
  superseded,\* history: sessions unconsumed when a later generate() for the pair returned
  verified,  \* history: session id -> number of successful verify() calls
  usedSids,  \* history: sessions whose record has had isUsed = true
  lockedSids,\* history: sessions whose record has had isLocked = true
  win,       \* history: per email, the window of its admitted generate() calls
  guesses    \* history: session id -> verify() calls whose code was compared and failed

vars == <<mode, budget, gens, vers, cfg, now, otps, limits, nextId, nextSid, sent, pc, loc,
          result, last, issued, superseded, verified, usedSids, lockedSids, win,
          guesses>>

NoMeta == [ip |-> "", userAgent |-> "", deviceId |-> "", platform |-> ""]

NoLoc ==
  [email |-> "", context |-> "", meta |-> NoMeta, sessionId |-> NoId, code |-> "",
   canProceed |-> FALSE, existing |-> NoId, isResent |-> FALSE, otp |-> "",
   expiresAt |-> 0, recId |-> NoId, recSid |-> NoId, retryCount |-> 0,
   snap |-> NoRecord,
   chain |-> "none", wasUsed |-> FALSE, wasLocked |-> FALSE,
   wasSuperseded |-> FALSE, late |-> FALSE, rateExpected |-> TRUE,
   neutralized |-> FALSE, threw |-> FALSE, done |-> <<>>]

NoResult ==
  [op |-> "none", kind |-> "none", sessionId |-> NoId, email |-> "", context |-> "",
   code |-> "", meta |-> NoMeta, expiresAt |-> 0, isResent |-> FALSE,
   present |-> FALSE, creates |-> 0, outcome |-> "none", snap |-> NoRecord,
   checkedAt |-> 0,
   chain |-> "none", wasUsed |-> FALSE, wasLocked |-> FALSE,
   wasSuperseded |-> FALSE, late |-> FALSE, rateExpected |-> TRUE,
   neutralized |-> FALSE, threw |-> FALSE, accepted |-> FALSE,
   failEmitted |-> FALSE, status |-> "none", done |-> <<>>,
   checks |-> [database |-> FALSE, emailProvider |-> FALSE, rateLimiter |-> FALSE]]

NoLast == [tag |-> "none", sessionId |-> NoId, email |-> "", context |-> "",
           otp |-> "", meta |-> NoMeta, expiresAt |-> 0]

\* variant: one key for every email
rateLimitKeyShared(email) == <<"otp", "", "email">>

rateLimitKey(email) == <<"otp", email, "email">>

checkMetaMismatch(originalMeta, currentMeta) ==
  \/ originalMeta.ip # currentMeta.ip
  \/ originalMeta.userAgent # currentMeta.userAgent
  \/ IF originalMeta.deviceId # ""
     THEN originalMeta.deviceId # currentMeta.deviceId ELSE FALSE
  \/ IF originalMeta.platform # ""
     THEN originalMeta.platform # currentMeta.platform ELSE FALSE

RECURSIVE SumOver(_, _)
SumOver(f, S) ==
  IF S = {} THEN 0
  ELSE LET x == CHOOSE y \in S : TRUE IN f[x] + SumOver(f, S \ {x})

\* generate() calls of the window that passed the rate check, over all contexts
WinCount(w) == SumOver(w.perCtx, Contexts)

\* the window of an email is open from its first admitted call until
\* windowMs later (the instant start + windowMs included)
WinOpen(email, time) ==
  /\ email \in DOMAIN win
  /\ time <= win[email].start + WindowMs

\* what the rate check of a generate() for email is to answer at `time`
RateExpected(email, time) ==
  ~(WinOpen(email, time) /\ WinCount(win[email]) >= cfg.maxPerWindow)

\* the window after one more call for (email, context) was admitted at `time`
WinAdmit(email, context, time) ==
  LET fresh == [start |-> time, perCtx |-> [c \in Contexts |-> 0], failed |-> 0,
                refused |-> IF email \in DOMAIN win THEN win[email].refused ELSE 0]
      w == IF WinOpen(email, time) THEN win[email] ELSE fresh
  IN  MapSet(win, email, [w EXCEPT !.perCtx[context] = @ + 1])

\* the window after an admitted call for email ended in a failure
WinFail(email) ==
  IF email \in DOMAIN win
  THEN [win EXCEPT ![email].failed = @ + 1]
  ELSE win

\* the window after a call for email was refused by the rate check
WinRefuse(email) ==
  IF email \in DOMAIN win
  THEN [win EXCEPT ![email].refused = @ + 1]
  ELSE win

\* a store call may throw only where the behaviour explores store failures
Throws == IF budget.faults THEN BOOLEAN ELSE {FALSE}

\* createOtp: the record is stored, or the store reports a duplicate key
\* (error.code = 11000), or another error
CreateOutcomes == IF budget.faults THEN {"ok", "dup", "err"} ELSE {"ok"}

\* maxRetries of the create loop, line 142
MaxCreateRetries == 3

\* an event handler of the host may throw only where the behaviour explores
\* failing callbacks
HandlerThrows == IF budget.callbacks THEN BOOLEAN ELSE {FALSE}

\* variant: no try/catch around the handler
emitEventUncaught(handlerThrows) == handlerThrows

\* lines 463-493: whether emitEvent itself throws; the handler's error is
\* caught inside it
emitEvent(handlerThrows) == FALSE

\* a caller runs its next segment: any caller in "conc" mode; in "seq" mode one
\* caller makes all the calls, each awaited before the next
CanStep(p) == mode = "conc" \/ p = SeqCaller

\* callers are interchangeable: the next call starts on the first idle caller
CanCall(p) ==
  /\ pc[p] = "idle"
  /\ CanStep(p)
  /\ \A q \in Procs : (pc[q] = "idle" /\ q # p) => CallerRank(p) < CallerRank(q)


UsedIn(s) == { s[i].sessionId : i \in { j \in DOMAIN s : s[j].isUsed } }

LockedIn(s) == { s[i].sessionId : i \in { j \in DOMAIN s : s[j].isLocked } }

\* the history of the flags follows every write to the store
Track(newOtps) ==
  /\ usedSids' = usedSids \cup UsedIn(newOtps)
  /\ lockedSids' = lockedSids \cup LockedIn(newOtps)

\* history: the calls the generate() of p has made on its collaborators, once
\* it makes `call`
Did(p, call) == Append(loc[p].done, call)

\* the call of p ends: r reaches its caller
Finish(p, r) ==
  /\ pc' = [pc EXCEPT ![p] = "idle"]
  /\ loc' = [loc EXCEPT ![p] = NoLoc]
  /\ result' = r

\* the call of p goes on to its next await
Goto(p, label) ==
  /\ pc' = [pc EXCEPT ![p] = label]
  /\ result' = NoResult

\* g generate() calls and v verify() calls are within what the behaviour explores
Within(g, v) == \E m \in budget.mix : g <= m[1] /\ v <= m[2]

InitWith(m, b, retries, strict, perWindow) ==
  /\ mode = m
  /\ budget = b
  /\ gens = 0
  /\ vers = 0
  /\ cfg \in [maxRetries : retries, strictMode : strict, maxPerWindow : perWindow]
  /\ now = 0
  /\ otps = <<>>
  /\ limits = <<>>
  /\ nextId = 1
  /\ nextSid = 1
  /\ sent = 0
  /\ pc = [p \in Procs |-> "idle"]
  /\ loc = [p \in Procs |-> NoLoc]
  /\ result = NoResult
  /\ last = NoLast
  /\ issued = {}
  /\ superseded = {}
  /\ verified = <<>>
  /\ usedSids = {}
  /\ lockedSids = {}
  /\ win = <<>>
  /\ guesses = <<>>

\* the result r of the call of p once emitEvent(type) has run on the way out
\* with a handler that throws or not; an error leaving emitEvent would reach
\* the caller in place of r
AfterEvent(p, r, type, handlerThrows) ==
  [r EXCEPT !.kind = IF emitEvent(handlerThrows) THEN "HANDLER_ERROR" ELSE @,
            !.threw = loc[p].threw \/ handlerThrows,
            !.failEmitted = (type = "fail")]

(* ---------------------------- generate() ------------------------------ *)

\* variant: requestMeta is not validated
missingGenerateParamsNoMeta(email, context, meta) == email = "" \/ context = ""

\* line 70: !email || !context || !requestMeta
missingGenerateParams(email, context, meta) ==
  email = "" \/ context = "" \/ meta = NoMeta

\* lines 66-80: validation, then the body of checkLimit, which runs when called
Generate(p, email, context, meta) ==
  /\ CanCall(p)
  /\ Within(gens + 1, vers)
  /\ gens' = gens + 1
  /\ last' = NoLast
  /\ IF missingGenerateParams(email, context, meta)
     THEN /\ Finish(p, [NoResult EXCEPT !.op = "generate", !.kind = "INVALID",
                                        !.email = email, !.context = context,
                                        !.meta = meta])
          /\ UNCHANGED limits
     ELSE /\ limits' = checkLimitMap(limits, rateLimitKey(email), now)
          /\ Goto(p, "g_rate")
          /\ loc' = [loc EXCEPT ![p] =
                       [NoLoc EXCEPT !.email = email, !.context = context,
                                     !.meta = meta,
                                     !.done = <<"checkLimit">>,
                                     !.rateExpected = RateExpected(email, now),
                                     !.canProceed =
                                        checkLimitResult(limits, rateLimitKey(email),
                                                         cfg.maxPerWindow, now)]]
  /\ UNCHANGED <<mode, budget, vers, cfg, now, otps, nextId, nextSid, sent, issued, superseded,
                 verified, usedSids, lockedSids, win>>
  /\ UNCHANGED guesses

GenResult(p, kind) ==
  [NoResult EXCEPT !.op = "generate", !.kind = kind, !.email = loc[p].email,
                   !.context = loc[p].context, !.meta = loc[p].meta,
                   !.rateExpected = loc[p].rateExpected,
                   !.threw = loc[p].threw,
                   !.done = loc[p].done]

\* lines 82-92: the fail event and RATE_LIMITED, or the body of increment
GRate(p) ==
  /\ pc[p] = "g_rate"
  /\ CanStep(p)
  /\ IF ~loc[p].canProceed
     THEN /\ \E t \in HandlerThrows :
               Finish(p, AfterEvent(p, GenResult(p, "RATE_LIMITED"), "fail", t))
          /\ win' = WinRefuse(loc[p].email)
          /\ UNCHANGED limits
     ELSE /\ limits' = increment(limits, rateLimitKey(loc[p].email), WindowMs, now)
          /\ win' = WinAdmit(loc[p].email, loc[p].context, now)
          /\ Goto(p, "g_cleanup")
          /\ loc' = [loc EXCEPT ![p].done = Did(p, "increment")]
  /\ UNCHANGED <<mode, budget, gens, vers, cfg, now, otps, nextId, nextSid, sent, last, issued,
                 superseded, verified, usedSids, lockedSids>>
  /\ UNCHANGED guesses

\* lines 94-101: the request event, then cleanupConflictingOtps, whose error
\* is caught
GCleanup(p) ==
  /\ pc[p] = "g_cleanup"
  /\ CanStep(p)
  /\ \E t \in HandlerThrows, throws \in Throws :
       IF emitEvent(t)
       THEN /\ Finish(p, AfterEvent(p, GenResult(p, "none"), "request", t))
            /\ win' = WinFail(loc[p].email)
            /\ UNCHANGED otps
       ELSE /\ otps' = IF throws THEN otps
                       ELSE cleanupConflictingOtps(otps, loc[p].email,
                                                   loc[p].context, "email")
            /\ loc' = [loc EXCEPT ![p].threw = t,
                                   ![p].done = Did(p, "cleanupConflictingOtps")]
            /\ Goto(p, "g_find")
            /\ UNCHANGED win
  /\ Track(otps')
  /\ UNCHANGED <<mode, budget, gens, vers, cfg, now, limits, nextId, nextSid, sent,
                 last, issued, superseded, verified>>
  /\ UNCHANGED guesses

\* line 104: findActiveOtp; its error is not caught and reaches the caller as
\* the adapter threw it
GFind(p) ==
  /\ pc[p] = "g_find"
  /\ CanStep(p)
  /\ \E throws \in Throws :
       IF throws
       THEN /\ Finish(p, [GenResult(p, "ADAPTER_ERROR") EXCEPT
                                 !.done = Did(p, "findActiveOtp")])
            /\ win' = WinFail(loc[p].email)
       ELSE LET existingOtp ==
                  findActiveOtp(otps, loc[p].email, loc[p].context, "email", now)
            IN  /\ loc' = [loc EXCEPT ![p].existing = existingOtp.id,
                                       ![p].done = Did(p, "findActiveOtp")]
                /\ Goto(p, IF existingOtp # NoRecord THEN "g_super" ELSE "g_gen")
                /\ UNCHANGED win
  /\ UNCHANGED <<mode, budget, gens, vers, cfg, now, otps, limits, nextId, nextSid, sent,
                 last, issued, superseded, verified, usedSids, lockedSids>>
  /\ UNCHANGED guesses

\* lines 107-122: updateOtp(existingOtp.id, {isUsed: true}); when it throws (the
\* record is gone, or the store fails), the next segment runs
\* deleteOtp(existingOtp.id), whose error is caught; loc.neutralized records
\* that this call marked the record used or removed it
GReconcile(p) ==
  /\ pc[p] \in {"g_super", "g_delete"}
  /\ CanStep(p)
  /\ \E throws \in Throws :
       IF pc[p] = "g_super"
       THEN IF HasOtp(otps, loc[p].existing) /\ ~throws
            THEN /\ otps' = updateUsed(otps, loc[p].existing)
                 /\ loc' = [loc EXCEPT ![p].isResent = TRUE,
                                        ![p].neutralized = TRUE,
                                        ![p].done = Did(p, "updateOtp existingOtp")]
                 /\ Goto(p, "g_gen")
            ELSE /\ Goto(p, "g_delete")
                 /\ loc' = [loc EXCEPT ![p].done = Did(p, "updateOtp existingOtp")]
                 /\ UNCHANGED otps
       ELSE /\ otps' = IF throws THEN otps ELSE deleteOtp(otps, loc[p].existing)
            /\ loc' = [loc EXCEPT ![p].neutralized =
                                     ~throws /\ HasOtp(otps, loc[p].existing),
                                   ![p].done = Did(p, "deleteOtp existingOtp")]
            /\ Goto(p, "g_gen")
  /\ Track(otps')
  /\ UNCHANGED win
  /\ UNCHANGED <<mode, budget, gens, vers, cfg, now, limits, nextId, nextSid, sent,
                 last, issued, superseded, verified>>
  /\ UNCHANGED guesses

\* lines 125-137 and 151: generateSessionId, generateOtp, expiresAt, then hashOtp
\* is awaited
GGen(p) ==
  /\ pc[p] = "g_gen"
  /\ CanStep(p)
  /\ \E otp \in budget.codes :
       loc' = [loc EXCEPT ![p].sessionId = nextSid, ![p].otp = otp,
                          ![p].expiresAt = now + ExpiryMs]
  /\ nextSid' = nextSid + 1
  /\ Goto(p, "g_create")
  /\ UNCHANGED win
  /\ UNCHANGED <<mode, budget, gens, vers, cfg, now, otps, limits, nextId, sent, last,
                 issued, superseded, verified, usedSids, lockedSids>>
  /\ UNCHANGED guesses

\* the record generate() passes to createOtp, lines 146-159: after a retry the
\* session id is generated again, the HMAC is over the first session id
NewOtp(p) ==
  [id |-> NoId, createdAt |-> 0,
   email |-> loc[p].email,
   context |-> loc[p].context,
   sessionId |-> IF loc[p].retryCount > 0 THEN nextSid ELSE loc[p].sessionId,
   channel |-> "email",
   otpHash |-> hashOtp(loc[p].otp),
   hmac |-> createHmac(loc[p].otp, loc[p].context, loc[p].sessionId),
   expiresAt |-> loc[p].expiresAt,
   attempts |-> 0,
   maxAttempts |-> cfg.maxRetries,
   isUsed |-> FALSE,
   isLocked |-> FALSE,
   requestMeta |-> loc[p].meta]

\* history: a createOtp that threw, by what it threw
Rejected(outcome) ==
  IF outcome = "dup" THEN "createOtp duplicate" ELSE "createOtp error"

\* variant: any error is retried
shouldRetryAny(outcome, retryCount) == retryCount < MaxCreateRetries

\* lines 160-172, after retryCount++: error.code === 11000 && retryCount < maxRetries
shouldRetry(outcome, retryCount) ==
  outcome = "dup" /\ retryCount < MaxCreateRetries

\* lines 144-178: one turn of the create loop.  The in-memory store never
\* rejects a record; a store with a unique index may.  After a duplicate key
\* the loop goes round again while retryCount < maxRetries; any other error,
\* and the last duplicate key, reach the caller as the adapter threw them
GCreate(p) ==
  /\ pc[p] = "g_create"
  /\ CanStep(p)
  /\ nextSid' = IF loc[p].retryCount > 0 THEN nextSid + 1 ELSE nextSid
  /\ \E outcome \in CreateOutcomes :
       IF outcome = "ok"
       THEN /\ otps' = createOtp(otps, NewOtp(p), nextId, now)
            /\ nextId' = nextId + 1
            /\ loc' = [loc EXCEPT ![p].recId = nextId,
                                   ![p].recSid = NewOtp(p).sessionId,
                                   ![p].done = Did(p, "createOtp ok")]
            /\ Goto(p, "g_send")
            /\ UNCHANGED win
       ELSE /\ UNCHANGED <<otps, nextId>>
            /\ IF shouldRetry(outcome, loc[p].retryCount + 1)
               THEN /\ loc' = [loc EXCEPT ![p].retryCount = @ + 1,
                                           ![p].done = Did(p, Rejected(outcome))]
                    /\ Goto(p, "g_create")
                    /\ UNCHANGED win
               ELSE /\ Finish(p, [GenResult(p, "ADAPTER_ERROR") EXCEPT
                                    !.creates = loc[p].retryCount + 1,
                                    !.outcome = outcome,
                                    !.done = Did(p, Rejected(outcome))])
                    /\ win' = WinFail(loc[p].email)
  /\ Track(otps')
  /\ UNCHANGED <<mode, budget, gens, vers, cfg, now, limits, sent, last, issued,
                 superseded, verified>>
  /\ UNCHANGED guesses

\* sessions of the pair that were returned earlier and are not consumed yet
Outstanding(email, context) ==
  { i.sessionId : i \in { j \in issued : /\ j.email = email
                                         /\ j.context = context
                                         /\ j.sessionId \notin DOMAIN verified } }

\* lines 184-196: the send event, then the result reaches the caller
GReturn(p, handlerThrows) ==
  /\ sent' = sent + 1
  /\ Finish(p, [AfterEvent(p, GenResult(p, "OK"), "send", handlerThrows) EXCEPT
                  !.accepted = TRUE,
                  !.done = Did(p, "sendEmail"),
                  !.neutralized = loc[p].neutralized,
                  !.sessionId = loc[p].recSid,
                  !.code = loc[p].otp,
                  !.expiresAt = loc[p].expiresAt,
                  !.isResent = loc[p].isResent,
                  !.creates = loc[p].retryCount + 1,
                  !.present = \E i \in DOMAIN otps :
                                 otps[i].sessionId = loc[p].recSid])
  /\ last' = IF mode = "seq"
             THEN [tag |-> "issued", sessionId |-> loc[p].recSid,
                   email |-> loc[p].email, context |-> loc[p].context,
                   otp |-> loc[p].otp, meta |-> loc[p].meta,
                   expiresAt |-> loc[p].expiresAt]
             ELSE NoLast
  /\ superseded' = superseded \cup Outstanding(loc[p].email, loc[p].context)
  /\ issued' = issued \cup {[sessionId |-> loc[p].recSid, email |-> loc[p].email,
                             context |-> loc[p].context]}
  /\ UNCHANGED <<otps, win>>

\* lines 198-212: deleteOtp(otpRecord.id), whose error is caught, then the
\* fail event and EMAIL_SEND_FAILED; `accepted` tells whether the provider had
\* taken the message when the try block was left
GRollback(p, accepted, handlerThrows) ==
  /\ \E throws \in Throws :
       otps' = IF throws THEN otps ELSE deleteOtp(otps, loc[p].recId)
  /\ sent' = IF accepted THEN sent + 1 ELSE sent
  /\ Finish(p, [AfterEvent(p, GenResult(p, "EMAIL_SEND_FAILED"), "fail",
                            ~accepted /\ handlerThrows) EXCEPT
                  !.accepted = accepted,
                  !.done = Did(p, "sendEmail") \o <<"deleteOtp otpRecord">>,
                  !.threw = loc[p].threw \/ handlerThrows,
                  !.sessionId = loc[p].recSid,
                  !.creates = loc[p].retryCount + 1])
  /\ win' = WinFail(loc[p].email)
  /\ UNCHANGED <<last, issued, superseded>>

\* variant: the message may go out before the record is created
GSendEarly(p) ==
  /\ pc[p] \in {"g_create", "g_send"}
  /\ CanStep(p)
  /\ \E ok \in BOOLEAN, t \in HandlerThrows :
       IF ok THEN GReturn(p, t) ELSE GRollback(p, ok, t)
  /\ Track(otps')
  /\ UNCHANGED <<mode, budget, gens, vers, cfg, now, limits, nextId, nextSid, verified>>
  /\ UNCHANGED guesses

\* lines 181-213: the provider's answer to sendEmail arrives.  The provider
\* shares no state with the calls, so the segment that follows its answer is
\* part of this step: the send event and the return, or (the provider threw,
\* or an error left emitEvent) the rollback and EMAIL_SEND_FAILED
GSend(p) ==
  /\ pc[p] = "g_send"
  /\ CanStep(p)
  /\ \E ok \in BOOLEAN, t \in HandlerThrows :
       IF ok /\ ~emitEvent(t) THEN GReturn(p, t) ELSE GRollback(p, ok, t)
  /\ Track(otps')
  /\ UNCHANGED <<mode, budget, gens, vers, cfg, now, limits, nextId, nextSid, verified>>
  /\ UNCHANGED guesses

(* ----------------------------- verify() ------------------------------- *)

\* line 229: !email || !clientHash || !context || !sessionId || !requestMeta
missingVerifyParams(email, clientHash, context, sessionId, meta) ==
  email = "" \/ clientHash = "" \/ context = "" \/ sessionId = NoId \/ meta = NoMeta

\* lines 226-234: validation, then the body of findOtp, which runs when called
Verify(p, email, context, sessionId, clientHash, meta) ==
  /\ CanCall(p)
  /\ Within(gens, vers + 1)
  /\ vers' = vers + 1
  /\ LET follows == /\ mode = "seq"
                    /\ last.tag \in {"issued", "verified"}
                    /\ last.sessionId = sessionId
                    /\ last.email = email
                    /\ last.context = context
                    /\ last.otp = clientHash
                    /\ last.meta = meta
         snap == findOtp(otps, email, context, sessionId, "email")
     IN  /\ last' = IF follows THEN last ELSE NoLast
         /\ IF missingVerifyParams(email, clientHash, context, sessionId, meta)
            THEN Finish(p, [NoResult EXCEPT !.op = "verify", !.kind = "INVALID",
                                            !.email = email, !.context = context,
                                            !.sessionId = sessionId,
                                            !.code = clientHash, !.meta = meta])
            ELSE /\ Goto(p, "v_check")
                 /\ loc' = [loc EXCEPT ![p] =
                       [NoLoc EXCEPT !.email = email, !.context = context,
                                     !.sessionId = sessionId, !.code = clientHash,
                                     !.meta = meta, !.snap = snap,
                                     !.chain = IF ~follows THEN "none"
                                               ELSE IF last.tag = "issued" THEN "first"
                                               ELSE "second",
                                     !.wasUsed = sessionId \in usedSids,
                                     !.wasSuperseded = sessionId \in superseded,
                                     !.late = /\ snap # NoRecord
                                              /\ snap.expiresAt < now,
                                     !.wasLocked = /\ sessionId \in lockedSids
                                                   /\ snap # NoRecord]]
         /\ UNCHANGED win
         /\ UNCHANGED <<mode, budget, gens, cfg, now, otps, limits, nextId, nextSid, sent, issued,
                 superseded, verified, usedSids, lockedSids>>
  /\ UNCHANGED guesses

VerResult(p, kind) ==
  [NoResult EXCEPT !.op = "verify", !.kind = kind, !.email = loc[p].email,
                   !.context = loc[p].context, !.sessionId = loc[p].sessionId,
                   !.code = loc[p].code, !.meta = loc[p].meta, !.snap = loc[p].snap,
                   !.checkedAt = now, !.chain = loc[p].chain,
                   !.wasUsed = loc[p].wasUsed, !.wasLocked = loc[p].wasLocked,
                   !.wasSuperseded = loc[p].wasSuperseded, !.late = loc[p].late]

\* the history of the last completed call, after a verify() ends with `kind`
LastAfterVerify(p, kind) ==
  IF loc[p].chain = "first" /\ kind = "SUCCESS"
  THEN [last EXCEPT !.tag = "verified"]
  ELSE NoLast

\* variant: a missing record has an error kind of its own
stateCheckNotFound(otpRecord, time) ==
  IF otpRecord = NoRecord THEN "NOT_FOUND"
  ELSE IF otpRecord.isUsed THEN "ALREADY_USED"
  ELSE IF otpRecord.isLocked THEN "LOCKED"
  ELSE IF otpRecord.expiresAt < time THEN "EXPIRED"
  ELSE "pass"

\* variant: the expiry is tested before the flags
stateCheckExpiryFirst(otpRecord, time) ==
  IF otpRecord = NoRecord THEN "INVALID"
  ELSE IF otpRecord.expiresAt < time THEN "EXPIRED"
  ELSE IF otpRecord.isUsed THEN "ALREADY_USED"
  ELSE IF otpRecord.isLocked THEN "LOCKED"
  ELSE "pass"

\* variant: no isUsed check
stateCheckNoUsed(otpRecord, time) ==
  IF otpRecord = NoRecord THEN "INVALID"
  ELSE IF otpRecord.isLocked THEN "LOCKED"
  ELSE IF otpRecord.expiresAt < time THEN "EXPIRED"
  ELSE "pass"

\* variant: no expiry check
stateCheckNoExpiry(otpRecord, time) ==
  IF otpRecord = NoRecord THEN "INVALID"
  ELSE IF otpRecord.isUsed THEN "ALREADY_USED"
  ELSE IF otpRecord.isLocked THEN "LOCKED"
  ELSE "pass"

\* lines 236-277: the state checks on the record that findOtp returned
stateCheck(otpRecord, time) ==
  IF otpRecord = NoRecord THEN "INVALID"
  ELSE IF otpRecord.isUsed THEN "ALREADY_USED"
  ELSE IF otpRecord.isLocked THEN "LOCKED"
  ELSE IF otpRecord.expiresAt < time THEN "EXPIRED"
  ELSE "pass"

\* lines 236-280: the state checks (a failed one emits the fail event), then
\* verifyOtpHash (bcrypt.compare) is awaited
VCheck(p) ==
  /\ pc[p] = "v_check"
  /\ CanStep(p)
  /\ LET kind == stateCheck(loc[p].snap, now)
     IN  IF kind # "pass"
         THEN /\ \E t \in HandlerThrows :
                   Finish(p, AfterEvent(p, VerResult(p, kind), "fail", t))
              /\ last' = LastAfterVerify(p, kind)
         ELSE /\ Goto(p, "v_update")
              /\ UNCHANGED loc
              /\ UNCHANGED last
  /\ UNCHANGED win
  /\ UNCHANGED <<mode, budget, gens, vers, cfg, now, otps, limits, nextId, nextSid, sent, issued,
                 superseded, verified, usedSids, lockedSids>>
  /\ UNCHANGED guesses

\* variant: the hash comparison alone decides
codeValidHashOnly(clientHash, context, sessionId, otpRecord) ==
  verifyOtpHash(clientHash, otpRecord.otpHash)

\* lines 280-283: both comparisons must pass
codeValid(clientHash, context, sessionId, otpRecord) ==
  /\ verifyOtpHash(clientHash, otpRecord.otpHash)
  /\ verifyHmac(clientHash, context, sessionId, otpRecord.hmac)

\* line 285
newAttempts(otpRecord) == otpRecord.attempts + 1

\* variant: the lock comes one attempt late
lockNowLate(otpRecord) == newAttempts(otpRecord) > otpRecord.maxAttempts

\* line 286
lockNow(otpRecord) == newAttempts(otpRecord) >= otpRecord.maxAttempts

\* variant: the metadata is never compared
metaRejectedNever(strictMode, otpRecord, meta) == FALSE

\* lines 313-315
metaRejected(strictMode, otpRecord, meta) ==
  strictMode /\ checkMetaMismatch(otpRecord.requestMeta, meta)

\* variant: a metadata mismatch is counted as a failed attempt
writesAttemptOnMismatch(kind) ==
  kind \in {"ATTEMPTS_EXCEEDED", "INVALID", "META_MISMATCH"}

\* lines 283-291: updateOtp(id, {attempts, isLocked}) is in the branch of the
\* failed comparison only
writesAttempt(kind) == kind \in {"ATTEMPTS_EXCEEDED", "INVALID"}

\* lines 281-345: the attempt is counted, or the metadata is checked and the
\* record is marked used, then the fail or verify event; updateOtp throws when
\* the record is gone
VUpdate(p) ==
  /\ pc[p] = "v_update"
  /\ CanStep(p)
  /\ LET rec == loc[p].snap
         kind == IF ~codeValid(loc[p].code, loc[p].context, loc[p].sessionId, rec)
                 THEN IF ~HasOtp(otps, rec.id) THEN "ERROR"
                      ELSE IF lockNow(rec) THEN "ATTEMPTS_EXCEEDED"
                      ELSE "INVALID"
                 ELSE IF metaRejected(cfg.strictMode, rec, loc[p].meta)
                      THEN "META_MISMATCH"
                 ELSE IF ~HasOtp(otps, rec.id) THEN "ERROR"
                 ELSE "SUCCESS"
     IN  /\ otps' = IF writesAttempt(kind)
                    THEN updateAttempts(otps, rec.id, newAttempts(rec), lockNow(rec))
                    ELSE IF kind = "SUCCESS" THEN updateUsed(otps, rec.id)
                    ELSE otps
         /\ guesses' = IF ~codeValid(loc[p].code, loc[p].context, loc[p].sessionId, rec)
                       THEN MapSet(guesses, loc[p].sessionId,
                                   IF loc[p].sessionId \in DOMAIN guesses
                                   THEN guesses[loc[p].sessionId] + 1 ELSE 1)
                       ELSE guesses
         /\ verified' = IF kind = "SUCCESS"
                        THEN MapSet(verified, loc[p].sessionId,
                                    IF loc[p].sessionId \in DOMAIN verified
                                    THEN verified[loc[p].sessionId] + 1 ELSE 1)
                        ELSE verified
         /\ \E t \in HandlerThrows :
              Finish(p, IF kind = "ERROR" THEN VerResult(p, kind)
                        ELSE AfterEvent(p, VerResult(p, kind),
                                        IF kind = "SUCCESS" THEN "verify" ELSE "fail",
                                        t))
         /\ last' = LastAfterVerify(p, kind)
  /\ Track(otps')
  /\ UNCHANGED win
  /\ UNCHANGED <<mode, budget, gens, vers, cfg, now, limits, nextId, nextSid, sent, issued,
                 superseded>>

(* ------------------------------ cleanup() ----------------------------- *)

\* lines 350-352: cleanupExpiredOtps
Cleanup ==
  /\ mode = "conc" \/ pc[SeqCaller] = "idle"
  /\ otps # cleanupExpiredOtps(otps, now)
  /\ otps' = cleanupExpiredOtps(otps, now)
  /\ Track(otps')
  /\ last' = NoLast
  /\ result' = [NoResult EXCEPT !.op = "cleanup"]
  /\ UNCHANGED win
  /\ UNCHANGED <<mode, budget, gens, vers, cfg, now, limits, nextId, nextSid, sent, pc, loc,
                 issued, superseded, verified>>
  /\ UNCHANGED guesses

(* ---------------------------- healthCheck() --------------------------- *)

\* the key of the rate limiter probe, line 385
HealthKey == <<"health-check">>

\* variant: one passing check is not enough for "degraded"
healthStatusStrict(database, emailProvider, rateLimiter) ==
  LET healthyChecks == Cardinality({ c \in {<<1, database>>, <<2, emailProvider>>,
                                             <<3, rateLimiter>>} : c[2] })
  IN  IF healthyChecks = 3 THEN "healthy"
      ELSE IF healthyChecks >= 2 THEN "degraded"
      ELSE "unhealthy"

\* lines 392-401: the status from the three checks
healthStatus(database, emailProvider, rateLimiter) ==
  LET healthyChecks == Cardinality({ c \in {<<1, database>>, <<2, emailProvider>>,
                                             <<3, rateLimiter>>} : c[2] })
  IN  IF healthyChecks = 3 THEN "healthy"
      ELSE IF healthyChecks >= 1 THEN "degraded"
      ELSE "unhealthy"

\* lines 357-409, called while no other call is in flight: cleanupExpiredOtps,
\* sendEmail to health-check@example.com and checkLimit, each in its own
\* try/catch
HealthCheck ==
  /\ mode = "seq"
  /\ pc[SeqCaller] = "idle"
  /\ budget.checks > 0
  /\ budget' = [budget EXCEPT !.checks = @ - 1]
  /\ \E dbThrows \in Throws, emailOk \in BOOLEAN, limiterThrows \in Throws :
       /\ otps' = IF dbThrows THEN otps ELSE cleanupExpiredOtps(otps, now)
       /\ sent' = IF emailOk THEN sent + 1 ELSE sent
       /\ limits' = IF limiterThrows THEN limits
                     ELSE checkLimitMap(limits, HealthKey, now)
       /\ result' = [NoResult EXCEPT
                        !.op = "healthCheck",
                        !.accepted = emailOk,
                        !.checks = [database |-> ~dbThrows, emailProvider |-> emailOk,
                                    rateLimiter |-> ~limiterThrows],
                        !.status = healthStatus(~dbThrows, emailOk, ~limiterThrows)]
  /\ Track(otps')
  /\ last' = NoLast
  /\ UNCHANGED <<mode, gens, vers, cfg, now, nextId, nextSid, pc, loc, issued,
                 superseded, verified, win>>
  /\ UNCHANGED guesses

(* ----------------------- a write from outside ------------------------- *)

\* what a stored hmac is overwritten with
WrongHmac == <<"hmac-sha256", "wrong-hmac">>

\* the hmac of a stored record is altered behind the engine, through the
\* store's updateOtp(id, {hmac})
Tamper ==
  /\ mode = "conc" \/ pc[SeqCaller] = "idle"
  /\ \E i \in DOMAIN otps :
       /\ otps[i].hmac # WrongHmac
       /\ otps' = [otps EXCEPT ![i].hmac = WrongHmac]
  /\ result' = NoResult
  /\ UNCHANGED <<mode, budget, gens, vers, cfg, now, limits, nextId, nextSid, sent, pc, loc,
                 last, issued, superseded, verified, usedSids, lockedSids, win>>
  /\ UNCHANGED guesses

(* -------------------------------- clock ------------------------------- *)

Tick ==
  /\ now < budget.time
  /\ now' = now + 1
  /\ result' = NoResult
  /\ UNCHANGED win
  /\ UNCHANGED <<mode, budget, gens, vers, cfg, otps, limits, nextId, nextSid, sent, pc, loc,
                 last, issued, superseded, verified, usedSids, lockedSids>>
  /\ UNCHANGED guesses

(* --------------------------- specifications --------------------------- *)

Next ==
  \/ \E p \in Procs, email \in budget.emails, context \in budget.contexts,
        meta \in GenMetas :
       Generate(p, email, context, meta)
  \/ \E p \in Procs : GRate(p)
  \/ \E p \in Procs : GCleanup(p)
  \/ \E p \in Procs : GFind(p)
  \/ \E p \in Procs : GReconcile(p)
  \/ \E p \in Procs : GGen(p)
  \/ \E p \in Procs : GCreate(p)
  \/ \E p \in Procs : GSend(p)
  \/ \E p \in Procs, email \in budget.emails, context \in budget.contexts,
        sessionId \in 1..(nextSid - 1), clientHash \in Codes, meta \in Metas :
       Verify(p, email, context, sessionId, clientHash, meta)
  \/ \E p \in Procs : VCheck(p)
  \/ \E p \in Procs : VUpdate(p)
  \/ Cleanup
  \/ Tick

\* overlapping generate() calls, and one verify()
Init ==
  InitWith("conc", [mix |-> {<<MaxGenerates, 1>>}, time |-> MaxTime - 1,
                    codes |-> {"111111"}, emails |-> {"a@x"},
                    contexts |-> {"login"}, faults |-> FALSE, callbacks |-> FALSE, checks |-> 0],
           {1}, {TRUE}, {1, MaxPerWindow})

Spec == Init /\ [][Next]_vars

\* overlapping verify() calls on the session of one generate(), or one
\* verify() overlapping two generate() calls
VerInit ==
  InitWith("conc", [mix |-> {<<1, MaxVerifies>>, <<2, 1>>}, time |-> MaxTime,
                    codes |-> {"111111"}, emails |-> {"a@x"},
                    contexts |-> {"login"}, faults |-> FALSE, callbacks |-> FALSE, checks |-> 0],
           MaxRetriesChoices, {TRUE}, {MaxPerWindow})

VerSpec == VerInit /\ [][Next]_vars

\* one caller, each call awaited before the next one starts
SeqInit ==
  InitWith("seq", [mix |-> {<<2, 2>>}, time |-> MaxTime, codes |-> Codes,
                   emails |-> {"a@x"}, contexts |-> {"login"}, faults |-> FALSE, callbacks |-> FALSE, checks |-> 0],
           MaxRetriesChoices, BOOLEAN, {MaxPerWindow})

SeqSpec == SeqInit /\ [][Next]_vars

\* one caller, generate() calls for two emails and two contexts over three
\* windows of a small rate limit
RateInit ==
  InitWith("seq", [mix |-> {<<MaxRateGenerates, 0>>, <<1, 1>>}, time |-> MaxTime,
                   codes |-> {"111111"}, emails |-> Emails, contexts |-> Contexts,
                   faults |-> FALSE, callbacks |-> FALSE, checks |-> 0],
           {1}, {TRUE}, SmallPerWindow)

RateSpec == RateInit /\ [][Next]_vars

\* one caller over a store whose calls may fail
FaultInit ==
  InitWith("seq", [mix |-> {<<2, 1>>}, time |-> MaxTime - 1,
                   codes |-> {"111111"}, emails |-> {"a@x"},
                   contexts |-> {"login"}, faults |-> TRUE, callbacks |-> FALSE, checks |-> 0],
           {1}, {TRUE}, {1, MaxPerWindow})

FaultSpec == FaultInit /\ [][Next]_vars

\* one caller over a store whose records may be altered from outside
TamperNext == Next \/ Tamper

TamperInit ==
  InitWith("seq", [mix |-> {<<2, 2>>}, time |-> MaxTime - 1,
                   codes |-> {"111111"}, emails |-> {"a@x"},
                   contexts |-> {"login"}, faults |-> FALSE, callbacks |-> FALSE, checks |-> 0],
           {2}, {TRUE}, {MaxPerWindow})

TamperSpec == TamperInit /\ [][TamperNext]_vars

\* one caller that also probes the engine's health, over a store and a rate
\* limiter whose calls may fail
HealthNext == Next \/ HealthCheck

HealthInit ==
  InitWith("seq", [mix |-> {<<2, 1>>}, time |-> MaxTime - 1,
                   codes |-> {"111111"}, emails |-> {"a@x"},
                   contexts |-> {"login"}, faults |-> TRUE, callbacks |-> FALSE,
                   checks |-> MaxHealthChecks],
           {1}, {TRUE}, {MaxPerWindow})

HealthSpec == HealthInit /\ [][HealthNext]_vars

\* one caller whose event handlers may throw
EventInit ==
  InitWith("seq", [mix |-> {<<2, 2>>}, time |-> MaxTime - 1,
                   codes |-> {"111111"}, emails |-> {"a@x"},
                   contexts |-> {"login"}, faults |-> FALSE, callbacks |-> TRUE,
                   checks |-> 0],
           {2}, {TRUE}, {1, MaxPerWindow})

EventSpec == EventInit /\ [][Next]_vars

\* one caller whose calls may leave a parameter empty
InputNext ==
  \/ Next
  \/ \E p \in Procs, email \in budget.emails \cup {""},
        context \in budget.contexts \cup {""}, meta \in GenMetas \cup {NoMeta} :
       Generate(p, email, context, meta)
  \/ \E p \in Procs, email \in budget.emails \cup {""},
        context \in budget.contexts \cup {""}, sessionId \in NoId..(nextSid - 1),
        clientHash \in Codes \cup {""}, meta \in Metas \cup {NoMeta} :
       Verify(p, email, context, sessionId, clientHash, meta)

InputInit ==
  InitWith("seq", [mix |-> {<<2, 2>>}, time |-> MaxTime - 1,
                   codes |-> {"111111"}, emails |-> {"a@x"},
                   contexts |-> {"login"}, faults |-> FALSE, callbacks |-> FALSE,
                   checks |-> 0],
           {2}, {TRUE}, {MaxPerWindow})

InputSpec == InputInit /\ [][InputNext]_vars

(* ------------------------------- claims ------------------------------- *)

\* the verify() that just ended presented the code, session and metadata of
\* a stored record
Presented(r) ==
  /\ r.op = "verify"
  /\ r.snap # NoRecord
  /\ codeValid(r.code, r.context, r.sessionId, r.snap)
  /\ ~checkMetaMismatch(r.snap.requestMeta, r.meta)

\* C1: a generate() that returns, followed at once by verify() with the code
\* it sent, the session id it returned and the same metadata, succeeds (the
\* record is not yet past expiresAt when it is checked); the same verify()
\* once more fails with ALREADY_USED.
C1_IssueThenVerifyOnce ==
  /\ (result.op = "verify" /\ result.chain = "first")
        => \/ result.kind = "SUCCESS"
           \/ /\ result.kind = "EXPIRED"
              /\ result.snap # NoRecord
              /\ result.snap.expiresAt < result.checkedAt
  /\ (result.op = "verify" /\ result.chain = "second")
        => result.kind = "ALREADY_USED"

C1_Witness ==
  /\ result.op = "verify"
  /\ result.chain = "second"
  /\ result.kind = "ALREADY_USED"
  /\ Presented(result)

\* C2: once a generate() for a pair has returned while an earlier session of
\* the pair was unconsumed, no verify() called afterwards on the earlier
\* session succeeds.
C2_SupersededNeverVerifies ==
  ~(result.op = "verify" /\ result.wasSuperseded /\ result.kind = "SUCCESS")

\* C3: at most one stored record per (email, context, channel) is active.
C3_AtMostOneActive ==
  \A email \in Emails, context \in Contexts :
    Cardinality({ i \in DOMAIN otps :
                    isActiveFor(otps[i], email, context, "email", now) }) <= 1

\* C4: the session id a generate() returns names a record that is in the
\* store when generate() returns (stated for a record still before its
\* expiresAt, which cleanup() does not remove).
C4_ReturnedSessionStored ==
  (result.op = "generate" /\ result.kind = "OK" /\ result.expiresAt > now)
     => result.present

\* C5: attempts <= maxAttempts for every stored record, for every maxRetries.
C5_AttemptsWithinCeiling ==
  \A i \in DOMAIN otps : otps[i].attempts <= otps[i].maxAttempts

C5_Witness ==
  /\ result.op = "verify"
  /\ result.kind = "ATTEMPTS_EXCEEDED"
  /\ \E i \in DOMAIN otps : /\ otps[i].sessionId = result.sessionId
                             /\ otps[i].maxAttempts = 2
                             /\ otps[i].attempts = otps[i].maxAttempts
                             /\ otps[i].isLocked

\* C6: the failing verify() that raises attempts to maxAttempts locks the
\* record and returns ATTEMPTS_EXCEEDED, a failing verify() before that
\* returns INVALID, and every verify() called on the stored record after it
\* was locked (and that does not find it used) returns LOCKED, whatever code
\* it presents.
C6_LockAtCeiling ==
  /\ (result.op = "verify" /\ result.kind \in {"ATTEMPTS_EXCEEDED", "INVALID"}
         /\ result.snap # NoRecord)
        => /\ (result.kind = "ATTEMPTS_EXCEEDED")
                 = (result.snap.attempts + 1 = result.snap.maxAttempts)
           /\ \A i \in DOMAIN otps :
                 (otps[i].id = result.snap.id /\ result.kind = "ATTEMPTS_EXCEEDED")
                    => otps[i].isLocked
  /\ (result.op = "verify" /\ result.wasLocked /\ ~result.snap.isUsed)
        => result.kind = "LOCKED"

\* C7: no step lowers the attempts of a stored record, and no step unlocks a
\* locked record.
C7_AttemptsLockMonotone ==
  [][\A i \in DOMAIN otps, j \in DOMAIN otps' :
        otps'[j].id = otps[i].id
           => /\ otps'[j].attempts >= otps[i].attempts
              /\ otps[i].isLocked => otps'[j].isLocked]_vars

\* C8: a stored record whose isUsed has been true still has isUsed = true, and
\* no verify() called after the flag was set succeeds.
C8_UsedIsFinal ==
  /\ \A i \in DOMAIN otps : otps[i].sessionId \in usedSids => otps[i].isUsed
  /\ (result.op = "verify" /\ result.wasUsed) => result.kind # "SUCCESS"

C8_Witness ==
  /\ result.op = "verify"
  /\ result.wasUsed
  /\ Presented(result)
  /\ result.kind = "ALREADY_USED"
  /\ \E i \in DOMAIN otps : otps[i].sessionId = result.sessionId /\ otps[i].isUsed

\* C9: at most one verify() on a session returns success.
C9_OneSuccessPerSession ==
  \A s \in DOMAIN verified : verified[s] <= 1

\* C10: a verify() called after expiresAt of its record, which is neither
\* used nor locked, returns EXPIRED, whatever code and metadata it presents.
C10_ExpiredAfterExpiresAt ==
  (/\ result.op = "verify"
   /\ result.late
   /\ ~result.snap.isUsed
   /\ ~result.snap.isLocked) => result.kind = "EXPIRED"

C10_Witness ==
  /\ result.op = "verify"
  /\ result.late
  /\ Presented(result)
  /\ ~result.snap.isUsed
  /\ ~result.snap.isLocked
  /\ result.snap.attempts < result.snap.maxAttempts
  /\ result.kind = "EXPIRED"

\* C11: with one caller, a generate() is refused with RATE_LIMITED exactly when
\* maxPerWindow calls for its email were admitted in the window that is open
\* when it is called; the first maxPerWindow calls of a window are admitted
\* and calls are admitted again once the window has elapsed.
C11_RateWindow ==
  (result.op = "generate" /\ result.kind # "INVALID")
     => ((result.kind = "RATE_LIMITED") = ~result.rateExpected)

C11_Witness ==
  /\ result.op = "generate"
  /\ result.kind = "OK"
  /\ cfg.maxPerWindow = 2
  /\ result.email \in DOMAIN win
  /\ win[result.email].refused >= 1
  /\ win[result.email].start > WindowMs
  /\ WinCount(win[result.email]) = 1

C13_AdmittedWithinLimit ==
  \A e \in DOMAIN win : WinCount(win[e]) <= cfg.maxPerWindow

\* C14: the steps of a generate() that is refused with RATE_LIMITED leave the
\* stored records, the rate counters and the emails sent as they were.
C14_RateLimitedChangesNothing ==
  [][/\ (result'.op = "generate" /\ result'.kind = "RATE_LIMITED")
          => (otps' = otps /\ limits' = limits /\ sent' = sent)
     /\ \A p \in Procs :
          (pc[p] = "idle" /\ pc'[p] = "g_rate" /\ ~loc'[p].canProceed)
             => (otps' = otps /\ limits' = limits /\ sent' = sent)]_vars

C14_Witness ==
  /\ result.op = "generate"
  /\ result.kind = "RATE_LIMITED"
  /\ \E i \in DOMAIN otps :
        isActiveFor(otps[i], result.email, result.context, "email", now)

\* C15: while the window of an email is open the rate counter of the email
\* equals the number of its admitted calls, the ones that failed later
\* included, and a call that finds maxPerWindow of them is refused.
C15_FailedCallsCount ==
  /\ \A e \in DOMAIN win :
        WinOpen(e, now)
           => /\ rateLimitKey(e) \in DOMAIN limits
              /\ limits[rateLimitKey(e)].count = WinCount(win[e])
  /\ (result.op = "generate" /\ result.kind # "INVALID" /\ ~result.rateExpected)
        => result.kind \in {"RATE_LIMITED"}

C15_Witness ==
  /\ result.op = "generate"
  /\ result.kind = "RATE_LIMITED"
  /\ result.email \in DOMAIN win
  /\ win[result.email].failed = cfg.maxPerWindow
  /\ WinCount(win[result.email]) = cfg.maxPerWindow

\* C16: after a generate() that ends in EMAIL_SEND_FAILED no record with the
\* session id of that call is stored.
C16_SendFailureRollsBack ==
  (result.op = "generate" /\ result.kind = "EMAIL_SEND_FAILED")
     => \A i \in DOMAIN otps : otps[i].sessionId # result.sessionId

\* C17: generate() makes at most 3 create attempts, and when the last of them
\* ends in a duplicate key it fails with DATABASE_ERROR.
C17_CreateRetries ==
  /\ result.creates <= MaxCreateRetries
  /\ (result.op = "generate" /\ result.outcome = "dup")
        => (result.creates = MaxCreateRetries /\ result.kind = "DATABASE_ERROR")

\* C18: no generate() fails on a store error before it has tried to create
\* its record.
C18_ReconcileNeverBlocks ==
  ~(result.op = "generate" /\ result.kind = "ADAPTER_ERROR" /\ result.creates = 0)

\* C19: in strict mode a verify() that passes the state checks with the
\* correct code and other metadata ends in META_MISMATCH, and a verify() ends
\* in META_MISMATCH only in strict mode, with the correct code.
C19_MetaAfterCode ==
  /\ (result.op = "verify" /\ result.kind = "META_MISMATCH")
        => /\ cfg.strictMode
           /\ result.snap # NoRecord
           /\ codeValid(result.code, result.context, result.sessionId, result.snap)
           /\ checkMetaMismatch(result.snap.requestMeta, result.meta)
  /\ (/\ result.op = "verify"
      /\ cfg.strictMode
      /\ stateCheck(result.snap, result.checkedAt) = "pass"
      /\ codeValid(result.code, result.context, result.sessionId, result.snap)
      /\ checkMetaMismatch(result.snap.requestMeta, result.meta))
        => result.kind = "META_MISMATCH"

C19_Witness ==
  /\ result.op = "verify"
  /\ result.kind = "META_MISMATCH"
  /\ result.snap # NoRecord
  /\ result.snap.requestMeta.ip # result.meta.ip
  /\ result.snap.requestMeta.userAgent = result.meta.userAgent

\* C20: a verify() succeeds only when the hash comparison and the HMAC
\* comparison against the record it read both pass.
C20_HashAndHmac ==
  (result.op = "verify" /\ result.kind = "SUCCESS")
     => /\ result.snap # NoRecord
        /\ verifyOtpHash(result.code, result.snap.otpHash)
        /\ verifyHmac(result.code, result.context, result.sessionId, result.snap.hmac)

C20_Witness ==
  /\ result.op = "verify"
  /\ stateCheck(result.snap, result.checkedAt) = "pass"
  /\ verifyOtpHash(result.code, result.snap.otpHash)
  /\ result.snap.hmac = WrongHmac
  /\ ~checkMetaMismatch(result.snap.requestMeta, result.meta)
  /\ result.kind \in {"INVALID", "ATTEMPTS_EXCEEDED"}

C22_HealthCheckReadOnly ==
  [][result'.op = "healthCheck" =>
       /\ otps' = otps
       /\ limits' = limits
       /\ sent' = sent
       /\ ~result'.accepted]_vars

\* C23: checkLimit never changes the rate limiter's map: the step of
\* generate() that runs it leaves every entry as it was.
C23_CheckLimitReadOnly ==
  [][\A p \in Procs :
       (pc[p] = "idle" /\ pc'[p] = "g_rate") => limits' = limits]_vars

\* C24: an event handler that throws changes no outcome: its error never
\* reaches the caller of generate() or verify(), and a generate() whose
\* message the provider accepted returns with its record stored (no rollback)
\* whether or not onSend threw.
C24_CallbackFailureSwallowed ==
  /\ result.kind # "HANDLER_ERROR"
  /\ (result.op = "generate" /\ result.accepted)
       => (result.kind = "OK" /\ result.present)
  /\ (result.op = "verify" /\ result.threw)
       => IF result.snap = NoRecord \/ result.snap.isUsed \/ result.snap.isLocked
          THEN result.kind = stateCheck(result.snap, result.checkedAt)
          ELSE \/ /\ result.kind = "EXPIRED"
                  /\ result.snap.expiresAt < result.checkedAt
               \/ result.kind =
                    IF ~codeValid(result.code, result.context, result.sessionId,
                                  result.snap)
                    THEN (IF lockNow(result.snap) THEN "ATTEMPTS_EXCEEDED"
                          ELSE "INVALID")
                    ELSE IF metaRejected(cfg.strictMode, result.snap, result.meta)
                    THEN "META_MISMATCH"
                    ELSE "SUCCESS"

\* a generate() that returned although onSend threw
C24_Witness ==
  /\ result.op = "generate"
  /\ result.kind = "OK"
  /\ result.threw
  /\ result.accepted
  /\ result.present

\* C25: a stored record goes from unused to used only in the step that ends a
\* verify() with SUCCESS; no other operation, generate() in particular, sets
\* isUsed.
C25_OnlyVerifySetsUsed ==
  [][(\E i \in DOMAIN otps, j \in DOMAIN otps' :
        /\ otps'[j].id = otps[i].id
        /\ ~otps[i].isUsed
        /\ otps'[j].isUsed)
       => (result'.op = "verify" /\ result'.kind = "SUCCESS")]_vars

\* C26: a generate() that found an active record for its (email, context) and
\* returns, returns the session id of that record with isResent = true, and
\* the provider has sent one more message.
C26_ResendSameSession ==
  [][\A p \in Procs :
       (/\ pc[p] = "g_send"
        /\ loc[p].existing # NoId
        /\ result'.op = "generate"
        /\ result'.kind = "OK")
       => /\ result'.isResent
          /\ sent' = sent + 1
          /\ \E i \in DOMAIN otps : /\ otps[i].id = loc[p].existing
                                     /\ otps[i].sessionId = result'.sessionId]_vars

\* C27: the isResent of a generate() that returns is true exactly when the
\* call found an active record for its (email, context) and neutralized it,
\* by marking it used or by deleting it.
C27_ResentIffNeutralized ==
  (result.op = "generate" /\ result.kind = "OK")
    => (result.isResent <=> result.neutralized)

\* C28: every generate() or verify() that ends in a failure has emitted the
\* fail event (onFail) before the error reaches its caller.
C28_EveryFailureEmitsFail ==
  (result.op \in {"generate", "verify"} /\ result.kind \notin {"OK", "SUCCESS"})
    => result.failEmitted

\* C29: a generate() with an empty email, context or metadata, and a verify()
\* with any empty parameter, ends with INVALID in the step it is called in,
\* and that step leaves the store, the rate counters and the messages sent
\* as they were.
C29_EmptyInputFailsFast ==
  [][\A p \in Procs :
       LET begun == pc[p] = "idle" /\ (pc'[p] # "idle" \/ result'.op # "none")
           given == IF pc'[p] # "idle" THEN loc'[p] ELSE result'
           empty == \/ given.email = ""
                    \/ given.context = ""
                    \/ given.meta = NoMeta
                    \/ vers' # vers /\ (given.code = "" \/ given.sessionId = NoId)
       IN  (begun /\ (gens' # gens \/ vers' # vers) /\ empty)
             => /\ result'.kind = "INVALID"
                /\ otps' = otps
                /\ limits' = limits
                /\ sent' = sent]_vars

\* a generate() without metadata failed with INVALID over a store that holds
\* a record
C29_Witness ==
  /\ result.op = "generate"
  /\ result.kind = "INVALID"
  /\ result.meta = NoMeta
  /\ result.email # ""
  /\ otps # <<>>
  /\ limits # <<>>

\* the verify() that just ended found an unused, unlocked, unexpired record,
\* compared a wrong code with it and had the attempt stored
WrongCodeOnActive(r) ==
  /\ r.op = "verify"
  /\ r.snap # NoRecord
  /\ r.kind \notin {"ALREADY_USED", "LOCKED", "EXPIRED", "ERROR"}
  /\ ~codeValid(r.code, r.context, r.sessionId, r.snap)

\* C30 as stated: a verify() that matches no record ends with INVALID, and
\* so does every verify() with a wrong code against an existing active
\* session.
C30_NotFoundLikeWrongCode ==
  /\ (result.op = "verify" /\ result.snap = NoRecord /\ result.sessionId # NoId)
       => result.kind = "INVALID"
  /\ WrongCodeOnActive(result) => result.kind = "INVALID"

\* C30 amended: a verify() that matches no record ends with INVALID, as does
\* a verify() with a wrong code against an existing active session whose
\* attempt count stays below the ceiling; the wrong code that brings the count
\* to the ceiling ends with ATTEMPTS_EXCEEDED.
C30_NotFoundLikeWrongCodeBelowCeiling ==
  /\ (result.op = "verify" /\ result.snap = NoRecord /\ result.sessionId # NoId)
       => result.kind = "INVALID"
  /\ WrongCodeOnActive(result)
       => result.kind = IF result.snap.attempts + 1 < result.snap.maxAttempts
                        THEN "INVALID" ELSE "ATTEMPTS_EXCEEDED"

\* a verify() for a session whose record is gone ended with INVALID while
\* another record is stored
C30_Witness ==
  /\ result.op = "verify"
  /\ result.snap = NoRecord
  /\ result.sessionId # NoId
  /\ result.kind = "INVALID"
  /\ otps # <<>>

\* C31: the state checks of verify() on the record it found answer
\* ALREADY_USED for a used record, else LOCKED for a locked one, else EXPIRED
\* for one past its expiresAt, whatever code is submitted, and that step
\* leaves the store as it was.
C31_StateChecksShortCircuit ==
  [][\A p \in Procs :
       LET r == loc[p].snap
       IN  (/\ pc[p] = "v_check"
            /\ pc'[p] # "v_check"
            /\ r # NoRecord
            /\ r.isUsed \/ r.isLocked \/ r.expiresAt < now)
           => /\ result'.op = "verify"
              /\ result'.kind = IF r.isUsed THEN "ALREADY_USED"
                                 ELSE IF r.isLocked THEN "LOCKED"
                                 ELSE "EXPIRED"
              /\ otps' = otps]_vars

\* a verify() of a record both used and past its expiresAt ended with
\* ALREADY_USED
C31_Witness ==
  /\ result.op = "verify"
  /\ result.kind = "ALREADY_USED"
  /\ result.snap # NoRecord
  /\ result.snap.isUsed
  /\ result.snap.expiresAt < result.checkedAt
  /\ \E i \in DOMAIN otps : otps[i] = result.snap

\* the place of a collaborator call in the order rate check, rate increment,
\* reconciliation, creation, send (the rollback follows the send)
StepRank(call) ==
  CASE call = "checkLimit" -> 1
    [] call = "increment" -> 2
    [] call \in {"cleanupConflictingOtps", "findActiveOtp", "updateOtp existingOtp",
                 "deleteOtp existingOtp"} -> 3
    [] call \in {"createOtp ok", "createOtp duplicate", "createOtp error"} -> 4
    [] call = "sendEmail" -> 5
    [] OTHER -> 6

\* the calls of one generate() are in order; the send follows a successful
\* create; every store write follows the increment
InOrder(done) ==
  /\ \A j, k \in DOMAIN done : j < k => StepRank(done[j]) <= StepRank(done[k])
  /\ \A k \in DOMAIN done :
       done[k] = "sendEmail" => \E j \in 1..(k - 1) : done[j] = "createOtp ok"
  /\ \A k \in DOMAIN done :
       (StepRank(done[k]) \in {3, 4, 6} /\ done[k] # "findActiveOtp")
         => \E j \in 1..(k - 1) : done[j] = "increment"

\* C32: within each generate() the calls come in the order rate check, rate
\* increment, reconciliation, record creation, send: no send before a record
\* was created, no store write before the increment.
C32_StepsInOrder ==
  /\ \A p \in Procs : InOrder(loc[p].done)
  /\ InOrder(result.done)

\* a generate() that superseded a record and sent its message
C32_Witness ==
  /\ result.op = "generate"
  /\ result.kind = "OK"
  /\ result.isResent
  /\ Len(result.done) = 7

\* no call follows a createOtp that failed with another error than a
\* duplicate key
EndsAtError(done) ==
  \A k \in DOMAIN done : done[k] = "createOtp error" => k = Len(done)

\* C33: a createOtp failure that is not a duplicate key is not retried: the
\* generate() makes no further call (no other create attempt, no send), ends
\* with the error the store threw, and the step stores no record and sends no
\* message.
C33_OtherErrorNotRetried ==
  [][/\ \A p \in Procs : EndsAtError(loc'[p].done)
     /\ EndsAtError(result'.done)
     /\ result'.outcome = "err"
          => /\ result'.kind = "ADAPTER_ERROR"
             /\ result'.done[Len(result'.done)] = "createOtp error"
             /\ otps' = otps
             /\ sent' = sent]_vars

\* a generate() ended at its first create attempt, which the store refused
\* with an error that is no duplicate key
C33_Witness ==
  /\ result.op = "generate"
  /\ result.outcome = "err"
  /\ result.creates = 1
  /\ result.kind = "ADAPTER_ERROR"

\* C34: healthCheck() always returns, with "healthy" exactly when the store,
\* the provider and the rate limiter probes all pass, "unhealthy" exactly
\* when all three fail, and "degraded" otherwise.
C34_HealthTriState ==
  result.op = "healthCheck" =>
    LET c == result.checks
        all == c.database /\ c.emailProvider /\ c.rateLimiter
        none == ~c.database /\ ~c.emailProvider /\ ~c.rateLimiter
    IN  /\ result.status \in {"healthy", "degraded", "unhealthy"}
        /\ result.status = "healthy" <=> all
        /\ result.status = "unhealthy" <=> none
        /\ result.status = "degraded" <=> (~all /\ ~none)

\* a healthCheck() whose store probe alone passed
C34_Witness ==
  /\ result.op = "healthCheck"
  /\ result.status = "degraded"
  /\ result.checks.database
  /\ ~result.checks.emailProvider
  /\ ~result.checks.rateLimiter

\* C35: every stored record carries an HMAC computed over its own session
\* id (the one returned to the caller), also when it was created after a
\* duplicate-key retry; hence a verify() that presents the session id of a
\* stored record and the code whose hash it holds never fails the comparison
\* (never ends with INVALID or ATTEMPTS_EXCEEDED).
C35_HmacOverStoredSession ==
  /\ \A i \in DOMAIN otps :
       \E otp \in Codes :
         otps[i].hmac = createHmac(otp, otps[i].context, otps[i].sessionId)
  /\ (/\ result.op = "verify"
      /\ result.snap # NoRecord
      /\ verifyOtpHash(result.code, result.snap.otpHash))
       => result.kind \notin {"INVALID", "ATTEMPTS_EXCEEDED"}

\* C36: the step that ends a verify() with META_MISMATCH leaves the store as
\* it was: the record it read is still stored with the same attempts, not
\* used and not locked, as a later verify() will find it.
C36_MismatchLeavesRecord ==
  [][(result'.op = "verify" /\ result'.kind = "META_MISMATCH")
       => /\ otps' = otps
          /\ \E i \in DOMAIN otps' :
               /\ otps'[i] = result'.snap
               /\ ~otps'[i].isUsed
               /\ ~otps'[i].isLocked]_vars

\* a verify() ended with META_MISMATCH and its record is stored, unused and
\* unlocked
C36_Witness ==
  /\ result.op = "verify"
  /\ result.kind = "META_MISMATCH"
  /\ \E i \in DOMAIN otps : /\ otps[i] = result.snap
                             /\ ~otps[i].isUsed
                             /\ otps[i].attempts = 0

\* C37: after a generate() that ends in EMAIL_SEND_FAILED no active record
\* (unused, unlocked, unexpired) is stored for its (email, context): the
\* record of the call is deleted and a superseded one stays used.
C37_SendFailureLeavesNoActive ==
  (result.op = "generate" /\ result.kind = "EMAIL_SEND_FAILED")
    => \A i \in DOMAIN otps :
         ~isActiveFor(otps[i], result.email, result.context, "email", now)

\* the three expiry tests on a record o at `time`, flags apart: verify()
\* lets it pass, findActiveOtp counts it active, cleanupExpiredOtps keeps it
VerifyAccepts(o, time) ==
  stateCheck([o EXCEPT !.isUsed = FALSE, !.isLocked = FALSE], time) = "pass"

LookupActive(o, time) ==
  isActiveFor([o EXCEPT !.isUsed = FALSE, !.isLocked = FALSE],
              o.email, o.context, o.channel, time)

CleanupKeeps(o, time) == cleanupExpiredOtps(<<o>>, time) = <<o>>

\* C38: at every instant, a stored record that verify() does not treat as
\* expired is active for the lookup of generate() and is not deleted by
\* cleanup().
C38_ExpiryTestsAgree ==
  \A i \in DOMAIN otps :
    VerifyAccepts(otps[i], now)
      => (LookupActive(otps[i], now) /\ CleanupKeeps(otps[i], now))

\* C39: for every session, the verify() calls whose code was compared with
\* the stored hash and failed are at most maxAttempts, under every
\* interleaving of overlapping verify() calls.
C39_WrongGuessesWithinCeiling ==
  \A s \in DOMAIN guesses : guesses[s] <= cfg.maxRetries

\* the verify() result r names the session of the stored record o and the
\* code o holds, but another email or another context than o's
OtherPair(r, o) ==
  /\ o.sessionId = r.sessionId
  /\ verifyOtpHash(r.code, o.otpHash)
  /\ o.email # r.email \/ o.context # r.context

\* C40: a verify() that presents the session id and the code of a stored
\* record with another email or another context ends with INVALID, and the
\* step that ends it leaves the store as it was.
C40_BoundToEmailAndContext ==
  [][(/\ result'.op = "verify"
      /\ \E i \in DOMAIN otps : OtherPair(result', otps[i]))
       => /\ result'.kind = "INVALID"
          /\ otps' = otps]_vars

\* a verify() with the session and code of a stored, unused record but
\* another email ended with INVALID
C40_Witness ==
  /\ result.op = "verify"
  /\ result.kind = "INVALID"
  /\ \E i \in DOMAIN otps : /\ OtherPair(result, otps[i])
                             /\ otps[i].email # result.email
                             /\ otps[i].context = result.context
                             /\ ~otps[i].isUsed
                             /\ otps[i].attempts = 0

====
